---- MODULE Spec2Model ----
(***************************************************************************)
(* State-machine model of the DICOM ingestion pipeline and teardown of     *)
(* api/services/dicom_service.py (DicomService), together with the rows of *)
(* api/models.py it reads and writes (Case, DicomSeries, DicomImage).      *)
(*                                                                         *)
(* A run of process_dicom_files is modelled step by step: StartRun is the  *)
(* case lookup and the set-up of stats and series_cache, ProcessFile is    *)
(* one iteration of the for loop, FinishRun is the code after the loop and *)
(* the exit of the transaction.atomic block.  The decorator                *)
(* transaction.atomic is modelled by a working copy tx of the database     *)
(* that replaces the committed database db on commit and is discarded on   *)
(* rollback; the disk is not transactional.                                *)
(***************************************************************************)
EXTENDS Integers, Sequences, FiniteSets, TLC

(***************************************************************************)
(* Bounds and input universes                                              *)
(***************************************************************************)
\* number of files handed to process_dicom_files in one behaviour, over
\* all calls
MaxFiles == 3
\* number of calls of process_dicom_files in one behaviour
MaxRuns == 2

\* ids of the rows of the Case table (the model neither creates nor
\* deletes cases)
Cases == {1, 2}
\* case identifiers a caller may pass to process_dicom_files; 3 references
\* no Case row
CaseIds == Cases \cup {3}

\* the value of an identifier the parsed dataset does not carry
Absent == "<absent>"
\* SOP Instance UIDs and Series Instance UIDs of the files; the empty
\* string (an element present with no value) is an identifier value like
\* any other for the code
SopUIDs == {"", "1.2.1", "1.2.2"}
SeriesUIDs == {"1.2.S", "1.2.T"}

\* what DicomService.extract_metadata makes of the file's dataset:
\*   "ok"       a JSON-serializable mapping,
\*   "not_json" a mapping holding a value the JSON column cannot encode
\*              (a multi-valued WindowCenter is returned as it is)
MetaKinds == {"ok", "not_json"}

\* what the dataset of a file carries as SeriesNumber, SeriesDescription and
\* Modality, the three elements a Series row is created from: one value
\* stands for the triple
SeriesAttrs == {"CT 1 axial", "MR 2 sagittal"}

\* a file whose bytes make pydicom.dcmread raise
Unparseable ==
  [parse |-> "raises", sop |-> Absent, series |-> Absent, meta |-> "ok",
   attrs |-> "CT 1 axial"]

\* the candidate files a caller may pass, with series attributes of as
FilesWith(as) ==
  {Unparseable} \cup
  [parse : {"ok"}, sop : SopUIDs \cup {Absent},
   series : SeriesUIDs \cup {Absent}, meta : MetaKinds, attrs : as]

\* the candidate files of calls whose files all carry the same series
\* attributes
Files == FilesWith({"CT 1 axial"})

\* the candidate files of calls whose files differ in their series
\* attributes: parsed files with a series UID, with or without a SOP
\* identifier
SeedFiles ==
  {f \in FilesWith(SeriesAttrs) :
     f.parse = "ok" /\ f.series # Absent /\ f.sop # "" /\ f.meta = "ok"}

\* outcome of anonymized_dataset.save_as(file_path): "ok" the file is
\* written, "fail" it raises OSError and leaves no file
IoOutcomes == {"ok", "fail"}

(***************************************************************************)
(* Storage layout: a path below the DICOM storage root is the triple of    *)
(* its components.  os.path.join(case_path, '') names case_path itself, so *)
(* the case directory is the series directory of the empty series UID.     *)
(***************************************************************************)
NoFile == <<>>

get_case_storage_path(c) == [case |-> c, series |-> "", file |-> NoFile]

get_series_storage_path(c, s) == [case |-> c, series |-> s, file |-> NoFile]

\* file_path with the file written into the case directory, whatever its
\* series
file_path_InCaseDir(c, s, sop) == [case |-> c, series |-> "", file |-> <<sop>>]

file_path(c, s, sop) == [case |-> c, series |-> s, file |-> <<sop>>]

\* the directories os.makedirs(series_path) leaves on disk
SeriesDirs(c, s) == {get_case_storage_path(c), get_series_storage_path(c, s)}

\* everything below (and including) root/case_<c>
SubTree(d, c) == {p \in d : p.case = c}

(***************************************************************************)
(* State                                                                   *)
(***************************************************************************)
VARIABLES
  db,             \* committed database: series rows, image rows, Case.dicom_path
  tx,             \* the database as seen inside the running transaction
  disk,           \* paths that exist below the storage root
  pc,             \* "idle", or "loop" inside process_dicom_files
  case_id,        \* argument of the running call
  total_files,    \* stats['total_files'] = len(dicom_files)
  handled,        \* number of loop iterations done
  stats,          \* the other five counters of the stats dict
  series_cache,   \* series_cache: series UID -> pk of the cached DicomSeries
  needs_rollback, \* Django's connection.needs_rollback for the atomic block
  result,         \* what the last finished call returned or raised
  last,           \* the file handled by the last loop iteration and its outcome
  hist,           \* facts about the files of the running call (history)
  runs,           \* number of calls of process_dicom_files so far
  fed             \* number of files handed to those calls

vars == <<db, tx, disk, pc, case_id, total_files, handled, stats,
          series_cache, needs_rollback, result, last, hist, runs, fed>>

\* The pipeline of one file after its series is resolved (lines 236-252),
\* with the content of the datasets
VARIABLES
  source,         \* the dataset pydicom.dcmread returned
  anonymized,     \* anonymized_dataset, or NoDataset before line 237
  stored,         \* the dataset save_as wrote to file_path, or NoDataset
  metadata,       \* the mapping extract_metadata returned, or NoMetadata
  row_metadata,   \* DicomImage.metadata of the created row, or NoMetadata
  apc             \* position in lines 236-252

anonVars == <<source, anonymized, stored, metadata, row_metadata, apc>>

\* The Report and Feedback tables and the requests on them
VARIABLES
  reports,        \* Report rows: id -> row, or NoReport
  feedbacks,      \* Feedback rows
  clock,          \* timezone.now(); it advances when a request reads it
  request         \* the last request on a report and its response

reportVars == <<reports, feedbacks, clock, request>>

\* Two calls of process_dicom_files running at the same time on one case
VARIABLES
  rdb,            \* committed Series and Image rows
  rtx,            \* per call: the rows its open transaction has written
  rpc,            \* per call: "off", "loop", "committing", "done"
  rleft,          \* per call: the number of files it still has to handle
  rcache,         \* per call: series_cache, the pk cached for the UID or 0
  rstats,         \* per call: the files counted processed and errored
  rlock,          \* the call whose transaction holds the write lock, or 0
  rresult         \* per call: "none", "stats", or "error" when it raised

raceVars == <<rdb, rtx, rpc, rleft, rcache, rstats, rlock, rresult>>

\* The upload of an archive through the admin site (admin.py)
VARIABLES
  case_table,     \* per case id: how often its Case row was saved, 0: no row
  ingested,       \* per case id: the uploaded files that have an Image row
  stored_files,   \* per case id: the uploaded files written below the root
  temp_dir,       \* the temporary directory of the running request
  upc,            \* "idle", "unpack", "discover" or "ingesting"
  upload,         \* the running request, or the last one and how it ended
  uploads         \* number of requests so far

uploadVars ==
  <<case_table, ingested, stored_files, temp_dir, upc, upload, uploads>>

\* the variables the ingestion and teardown calls do not touch
otherVars == <<anonVars, reportVars, raceVars, uploadVars>>

\* a dataset maps each of its fields to the value of the element, or to
\* Absent when it has no such element; the dataset without elements
EmptyDataset ==
  [f \in {"PatientName", "PatientID", "PatientBirthDate", "OperatorsName",
          "InstitutionName", "Modality"} |-> Absent]

\* no mapping was extracted yet
NoMetadata ==
  [patient_id |-> Absent, patient_name |-> Absent, modality |-> Absent,
   institution_name |-> Absent]

\* the file pipeline is not in use
AnonIdle ==
  /\ source = EmptyDataset
  /\ anonymized = EmptyDataset
  /\ stored = EmptyDataset
  /\ metadata = NoMetadata
  /\ row_metadata = NoMetadata
  /\ apc = "off"

\* identifiers of the reports a behaviour creates
MaxReports == 2
ReportIds == 1..MaxReports

\* the slot of a report that was not created yet
NoReport == [status |-> "none", submission_date |-> 0]

\* no request was made yet
NoRequest == [op |-> "none", report |-> 0, response |-> 0, had |-> "none"]

\* no report request was made
ReportIdle ==
  /\ reports = [r \in ReportIds |-> NoReport]
  /\ feedbacks = {}
  /\ clock = 1
  /\ request = NoRequest

\* the two concurrent calls
Runs == {1, 2}

\* no concurrent call was made
RaceIdle ==
  /\ rdb = [series |-> {}, images |-> {}]
  /\ rtx = [p \in Runs |-> [series |-> {}, images |-> {}]]
  /\ rpc = [p \in Runs |-> "off"]
  /\ rleft = [p \in Runs |-> 0]
  /\ rcache = [p \in Runs |-> 0]
  /\ rstats = [p \in Runs |-> [processed |-> {}, errored |-> {}]]
  /\ rlock = 0
  /\ rresult = [p \in Runs |-> "none"]

\* the temporary directory does not exist
NoTemp == [exists |-> FALSE, entries |-> {}]

\* no upload request was made yet
NoUpload ==
  [handler |-> "none", case |-> 1,
   archive |-> [kind |-> "none", members |-> {}],
   dicom_files |-> {}, invoked |-> FALSE, messages |-> <<>>, exit |-> "none",
   before |-> [case_table |-> [c \in CaseIds |-> 0],
               ingested |-> [c \in CaseIds |-> {}],
               stored_files |-> [c \in CaseIds |-> {}]]]

\* no upload request was made: the Case rows of Cases exist, no file of an
\* archive was ingested
UploadIdle ==
  /\ case_table = [c \in CaseIds |-> IF c \in Cases THEN 1 ELSE 0]
  /\ ingested = [c \in CaseIds |-> {}]
  /\ stored_files = [c \in CaseIds |-> {}]
  /\ temp_dir = NoTemp
  /\ upc = "idle"
  /\ upload = NoUpload
  /\ uploads = 0

\* Case.dicom_path is NULL: a path that names no case directory
NoPath == [case |-> 0, series |-> "", file |-> NoFile]

ZeroStats ==
  [processed_files |-> 0, skipped_files |-> 0, error_files |-> 0,
   series_created |-> 0, images_created |-> 0]

NoLast == [file |-> Unparseable, exit |-> "none"]

NoHist ==
  [sops |-> {}, uids |-> {}, clean |-> FALSE, same |-> FALSE, first |-> <<>>]

NoResult == [op |-> "none", case |-> 1, ret |-> "none", had |-> FALSE]

EmptyDb ==
  [series |-> {}, images |-> {}, dicom_path |-> [c \in Cases |-> NoPath]]

\* no call of process_dicom_files or delete_case_dicom_data was made
IngestIdle ==
  /\ db = EmptyDb
  /\ tx = EmptyDb
  /\ disk = {}
  /\ pc = "idle"
  /\ case_id = 1
  /\ total_files = 0
  /\ handled = 0
  /\ stats = ZeroStats
  /\ series_cache = <<>>
  /\ needs_rollback = FALSE
  /\ result = NoResult
  /\ last = NoLast
  /\ hist = NoHist
  /\ runs = 0
  /\ fed = 0

Init ==
  /\ IngestIdle
  /\ AnonIdle
  /\ ReportIdle
  /\ RaceIdle
  /\ UploadIdle

(***************************************************************************)
(* Database queries and statements                                         *)
(***************************************************************************)
\* CaseExists with a lookup that never raises Case.DoesNotExist
CaseExists_Always(c) == TRUE

\* Case.objects.get(id=case_id) finds a row
CaseExists(c) == c \in Cases

\* DicomImage.objects.filter(sop_instance_uid=sop).exists()
ImageExists(d, sop) == \E im \in d.images : im.sop = sop

\* primary key of a new DicomSeries row; keys are opaque, the model hands
\* out the least key no row of the table holds
NewPk(rows) ==
  CHOOSE n \in 1..(Cardinality(rows) + 1) :
    /\ \A r \in rows : r.id # n
    /\ \A m \in 1..(n - 1) : \E r \in rows : r.id = m

\* the column constraint unique=True on DicomSeries.series_instance_uid
SeriesUidTaken(d, uid) == \E r \in d.series : r.uid = uid

\* the column constraint unique=True on DicomImage.sop_instance_uid
SopTaken(d, sop) == \E im \in d.images : im.sop = sop

\* get_or_create on a column without unique=True: the lookup by (case, uid)
\* alone decides whether a row is inserted
get_or_create_CaseScoped(d, c, uid, defaults) ==
  IF \E r \in d.series : r.case = c /\ r.uid = uid
  THEN [status |-> "found",
        pk |-> (CHOOSE r \in d.series : r.case = c /\ r.uid = uid).id,
        series |-> d.series]
  ELSE [status |-> "created", pk |-> NewPk(d.series),
        series |-> d.series \cup
                   {[id |-> NewPk(d.series), case |-> c, uid |-> uid,
                     attrs |-> defaults]}]

\* get_or_create writing the defaults to the row it found as well
\* (update_or_create)
get_or_create_UpdatesFound(d, c, uid, defaults) ==
  IF \E r \in d.series : r.case = c /\ r.uid = uid
  THEN [status |-> "found",
        pk |-> (CHOOSE r \in d.series : r.case = c /\ r.uid = uid).id,
        series |-> {IF r.case = c /\ r.uid = uid
                    THEN [r EXCEPT !.attrs = defaults] ELSE r : r \in d.series}]
  ELSE IF SeriesUidTaken(d, uid)
  THEN [status |-> "IntegrityError", pk |-> 0, series |-> d.series]
  ELSE [status |-> "created", pk |-> NewPk(d.series),
        series |-> d.series \cup
                   {[id |-> NewPk(d.series), case |-> c, uid |-> uid,
                     attrs |-> defaults]}]

\* DicomSeries.objects.get_or_create(case=case, series_instance_uid=uid,
\* defaults=...): the row of this case with this UID if there is one;
\* otherwise an INSERT inside a savepoint, which the unique constraint
\* rejects (IntegrityError, savepoint rolled back, second get finds nothing,
\* the error is re-raised) when a row of another case holds the UID
get_or_create(d, c, uid, defaults) ==
  IF \E r \in d.series : r.case = c /\ r.uid = uid
  THEN [status |-> "found",
        pk |-> (CHOOSE r \in d.series : r.case = c /\ r.uid = uid).id,
        series |-> d.series]
  ELSE IF SeriesUidTaken(d, uid)
  THEN [status |-> "IntegrityError", pk |-> 0, series |-> d.series]
  ELSE [status |-> "created", pk |-> NewPk(d.series),
        series |-> d.series \cup
                   {[id |-> NewPk(d.series), case |-> c, uid |-> uid,
                     attrs |-> defaults]}]

\* the row DicomImage.objects.create(series=..., sop_instance_uid=...,
\* file_path=...) inserts
ImageRow(pk, sop, path) == [sop |-> sop, series |-> pk, file_path |-> path]

\* the Series rows of a case and the Image rows that cascade with them
SeriesOf(d, c) == {r \in d.series : r.case = c}

ImagesOf(d, c) == {im \in d.images : \E r \in SeriesOf(d, c) : r.id = im.series}

(***************************************************************************)
(* process_dicom_files                                                     *)
(***************************************************************************)
\* history kept for the properties: the identifiers of the files handled so
\* far while every one of them was storable, new and stored without fault
\* in a run that started on an empty database (clean), and whether every
\* file so far carried the identifiers of an Image row committed before
\* the run (same)
StartHist ==
  [sops |-> {}, uids |-> {},
   clean |-> (db.series = {} /\ db.images = {}), same |-> TRUE,
   first |-> <<>>]

\* Case lookup and set-up.  An unknown case raises ValueError before the
\* loop; the atomic block exits with the exception and nothing was written.
StartRun(c, n) ==
  /\ pc = "idle"
  /\ runs < MaxRuns
  /\ n <= MaxFiles - fed
  /\ runs' = runs + 1
  /\ case_id' = c
  /\ stats' = ZeroStats
  /\ series_cache' = <<>>
  /\ needs_rollback' = FALSE
  /\ handled' = 0
  /\ last' = NoLast
  /\ IF CaseExists(c)
     THEN /\ pc' = "loop"
          /\ total_files' = n
          /\ fed' = fed + n
          /\ result' = NoResult
          /\ hist' = StartHist
     ELSE /\ pc' = "idle"
          /\ total_files' = 0
          /\ fed' = fed
          /\ result' = [op |-> "ingest", case |-> c, ret |-> "ValueError",
                        had |-> FALSE]
          /\ hist' = NoHist
  /\ UNCHANGED <<db, tx, disk>>
  /\ UNCHANGED otherVars

\* the places where one loop iteration ends, and the counter each bumps
SkipExits == {"no_sop", "duplicate"}

ErrorExits ==
  {"parse_raises", "no_series", "broken_transaction", "series_conflict",
   "write_failed", "insert_failed"}

\* Outcome with the "duplicate" exit bumping no counter
Outcome_DuplicateUncounted(exit) ==
  IF exit = "stored" THEN "processed"
  ELSE IF exit = "no_sop" THEN "skipped"
  ELSE IF exit = "duplicate" THEN "uncounted"
  ELSE "errored"

Outcome(exit) ==
  IF exit = "stored" THEN "processed"
  ELSE IF exit \in SkipExits THEN "skipped"
  ELSE "errored"

\* what one loop iteration leaves behind when it ends at exit without a new
\* Image row
NoImage(exit, series, d, cache, nr, sc) ==
  [exit |-> exit, series |-> series, images |-> tx.images, disk |-> d,
   cache |-> cache, nr |-> nr, sc |-> sc]

\* the series the file belongs to: the cached one, or get_or_create
ResolveSeries(f) ==
  IF f.series \in DOMAIN series_cache
  THEN [status |-> "cached", pk |-> series_cache[f.series],
        series |-> tx.series]
  ELSE get_or_create(tx, case_id, f.series, f.attrs)

\* StoreImage with the Image row created before save_as writes the file: a
\* failed write is caught by the handler of the loop and the row stays
StoreImage_RowBeforeFile(f, io, rs, cache, sc) ==
  LET dirs == disk \cup SeriesDirs(case_id, f.series)
      path == file_path(case_id, f.series, f.sop)
      written == dirs \cup {path}
  IN IF f.meta = "not_json" \/ SopTaken(tx, f.sop)
     THEN NoImage("insert_failed", rs.series, dirs, cache, TRUE, sc)
     ELSE IF io = "fail"
     THEN [exit |-> "write_failed", series |-> rs.series,
           images |-> tx.images \cup {ImageRow(rs.pk, f.sop, path)},
           disk |-> dirs, cache |-> cache, nr |-> FALSE, sc |-> sc]
     ELSE [exit |-> "stored", series |-> rs.series,
           images |-> tx.images \cup {ImageRow(rs.pk, f.sop, path)},
           disk |-> written, cache |-> cache, nr |-> FALSE, sc |-> sc]

\* lines 231-255: storage path, anonymized copy, metadata, Image row
StoreImage(f, io, rs, cache, sc) ==
  LET dirs == disk \cup SeriesDirs(case_id, f.series)
      path == file_path(case_id, f.series, f.sop)
      written == dirs \cup {path}
  IN IF io = "fail"
     THEN NoImage("write_failed", rs.series, dirs, cache, FALSE, sc)
     ELSE IF f.meta = "not_json" \/ SopTaken(tx, f.sop)
     \* the INSERT fails inside Model.save: Django marks the atomic block
     \* for rollback before the exception reaches the except clause
     THEN NoImage("insert_failed", rs.series, written, cache, TRUE, sc)
     ELSE [exit |-> "stored", series |-> rs.series,
           images |-> tx.images \cup {ImageRow(rs.pk, f.sop, path)},
           disk |-> written, cache |-> cache, nr |-> FALSE, sc |-> sc]

\* GroupAndStore counting a created series for every file it resolves a
\* series for, also when the series was cached or found
GroupAndStore_CountsEvery(f, io) ==
  LET rs == ResolveSeries(f)
      cache == IF rs.status = "cached" THEN series_cache
               ELSE (f.series :> rs.pk) @@ series_cache
      sc == 1
  IN IF rs.status = "IntegrityError"
     THEN NoImage("series_conflict", tx.series, disk, series_cache, FALSE, 0)
     ELSE StoreImage(f, io, rs, cache, sc)

\* lines 213-229 followed by the rest of the iteration
GroupAndStore(f, io) ==
  LET rs == ResolveSeries(f)
      cache == IF rs.status = "cached" THEN series_cache
               ELSE (f.series :> rs.pk) @@ series_cache
      sc == IF rs.status = "created" THEN 1 ELSE 0
  IN IF rs.status = "IntegrityError"
     THEN NoImage("series_conflict", tx.series, disk, series_cache, FALSE, 0)
     ELSE StoreImage(f, io, rs, cache, sc)

\* the exception handler of the loop (lines 257-260)
Errored(exit) ==
  NoImage(exit, tx.series, disk, series_cache, needs_rollback, 0)

\* the two "skipped" exits (lines 198-201 and 208-211)
Skipped(exit) ==
  NoImage(exit, tx.series, disk, series_cache, needs_rollback, 0)

\* the body of the for loop for file f (lines 193-260)
HandleFile(f, io) ==
  IF f.parse = "raises" THEN Errored("parse_raises")
  ELSE IF f.sop = Absent THEN Skipped("no_sop")
  \* str(dicom_dataset.SeriesInstanceUID) raises AttributeError
  ELSE IF f.series = Absent THEN Errored("no_series")
  \* any query in a block marked for rollback raises
  \* TransactionManagementError
  ELSE IF needs_rollback THEN Errored("broken_transaction")
  ELSE IF ImageExists(tx, f.sop) THEN Skipped("duplicate")
  ELSE GroupAndStore(f, io)

\* Count with images_created bumped for every file that reached the storage
\* step, also when its write failed
Count_ImagesPerAttempt(o) ==
  [processed_files |-> stats.processed_files
                       + (IF Outcome(o.exit) = "processed" THEN 1 ELSE 0),
   skipped_files |-> stats.skipped_files
                     + (IF Outcome(o.exit) = "skipped" THEN 1 ELSE 0),
   error_files |-> stats.error_files
                   + (IF Outcome(o.exit) = "errored" THEN 1 ELSE 0),
   series_created |-> stats.series_created + o.sc,
   images_created |-> stats.images_created
                      + (IF o.exit \in {"stored", "write_failed"}
                         THEN 1 ELSE 0)]

\* the counters after an iteration that ended as o
Count(o) ==
  [processed_files |-> stats.processed_files
                       + (IF Outcome(o.exit) = "processed" THEN 1 ELSE 0),
   skipped_files |-> stats.skipped_files
                     + (IF Outcome(o.exit) = "skipped" THEN 1 ELSE 0),
   error_files |-> stats.error_files
                   + (IF Outcome(o.exit) = "errored" THEN 1 ELSE 0),
   series_created |-> stats.series_created + o.sc,
   images_created |-> stats.images_created
                      + (IF o.exit = "stored" THEN 1 ELSE 0)]

\* the file carries the identifiers of an Image row committed before the run
SameAsIngested(f) ==
  \E im \in db.images : \E r \in db.series :
    /\ im.sop = f.sop
    /\ im.series = r.id
    /\ r.uid = f.series

\* the file parses, carries both identifiers (empty or not: the code
\* stores both alike) and its metadata can be stored
Storable(f) ==
  /\ f.parse = "ok"
  /\ f.sop # Absent
  /\ f.series # Absent
  /\ f.meta = "ok"

Record(f, io) ==
  LET clean == hist.clean /\ Storable(f) /\ io = "ok" /\ f.sop \notin hist.sops
  IN [sops |-> IF clean THEN hist.sops \cup {f.sop} ELSE {},
      uids |-> IF clean THEN hist.uids \cup {f.series} ELSE {},
      clean |-> clean,
      same |-> hist.same /\ SameAsIngested(f),
      first |-> IF f.parse = "ok" /\ f.series # Absent
                   /\ f.series \notin DOMAIN hist.first
                THEN (f.series :> f.attrs) @@ hist.first
                ELSE hist.first]

ProcessFile(f, io) ==
  /\ pc = "loop"
  /\ handled < total_files
  /\ LET o == HandleFile(f, io)
     IN /\ tx' = [tx EXCEPT !.series = o.series, !.images = o.images]
        /\ disk' = o.disk
        /\ series_cache' = o.cache
        /\ needs_rollback' = o.nr
        /\ stats' = Count(o)
        /\ last' = [file |-> f, exit |-> o.exit]
  /\ hist' = Record(f, io)
  /\ handled' = handled + 1
  /\ UNCHANGED <<db, pc, case_id, total_files, result, runs, fed>>
  /\ UNCHANGED otherVars

\* FinishRun with the Case path written only by a run that stored a file
FinishRun_PathWhenStored ==
  /\ pc = "loop"
  /\ handled = total_files
  /\ disk' = disk \cup {get_case_storage_path(case_id)}
  /\ IF needs_rollback
     THEN /\ tx' = db
          /\ db' = db
          /\ result' = [op |-> "ingest", case |-> case_id,
                        ret |-> "TransactionManagementError",
                        had |-> FALSE]
     ELSE /\ tx' = IF stats.processed_files > 0
                   THEN [tx EXCEPT !.dicom_path[case_id] =
                                      get_case_storage_path(case_id)]
                   ELSE tx
          /\ db' = tx'
          /\ result' = [op |-> "ingest", case |-> case_id, ret |-> "stats",
                        had |-> FALSE]
  /\ pc' = "idle"
  /\ needs_rollback' = FALSE
  /\ UNCHANGED <<case_id, total_files, handled, stats, series_cache, last,
                 hist, runs, fed>>
  /\ UNCHANGED otherVars

\* lines 262-267 and the exit of the atomic block: case.save raises
\* TransactionManagementError in a block marked for rollback, and the
\* block is rolled back; otherwise the block commits
FinishRun ==
  /\ pc = "loop"
  /\ handled = total_files
  /\ disk' = disk \cup {get_case_storage_path(case_id)}
  /\ IF needs_rollback
     THEN /\ tx' = db
          /\ db' = db
          /\ result' = [op |-> "ingest", case |-> case_id,
                        ret |-> "TransactionManagementError",
                        had |-> FALSE]
     ELSE /\ tx' = [tx EXCEPT !.dicom_path[case_id] =
                                 get_case_storage_path(case_id)]
          /\ db' = tx'
          /\ result' = [op |-> "ingest", case |-> case_id, ret |-> "stats",
                        had |-> FALSE]
  /\ pc' = "idle"
  /\ needs_rollback' = FALSE
  /\ UNCHANGED <<case_id, total_files, handled, stats, series_cache, last,
                 hist, runs, fed>>
  /\ UNCHANGED otherVars

\* AbortRun without the atomic block: every statement of the run was
\* committed when it was executed
AbortRun_Autocommit ==
  /\ pc = "loop"
  /\ db' = tx
  /\ tx' = tx
  /\ result' = [op |-> "ingest", case |-> case_id, ret |-> "aborted",
                had |-> FALSE]
  /\ pc' = "idle"
  /\ needs_rollback' = FALSE
  /\ UNCHANGED <<disk, case_id, total_files, handled, stats,
                 series_cache, last, hist, runs, fed>>
  /\ UNCHANGED otherVars

\* an exception that is not caught by "except Exception" (the worker is
\* interrupted or killed) leaves the atomic block: rollback
AbortRun ==
  /\ pc = "loop"
  /\ tx' = db
  /\ result' = [op |-> "ingest", case |-> case_id, ret |-> "aborted",
                had |-> FALSE]
  /\ pc' = "idle"
  /\ needs_rollback' = FALSE
  /\ UNCHANGED <<db, disk, case_id, total_files, handled, stats,
                 series_cache, last, hist, runs, fed>>
  /\ UNCHANGED otherVars

(***************************************************************************)
(* delete_case_dicom_data                                                  *)
(***************************************************************************)
\* where the teardown may fail: nowhere, in the DELETE statement, or in
\* shutil.rmtree
TeardownFaults == {"none", "db", "rmtree"}

\* DeleteSeries without the cascade to the Image rows
DeleteSeries_NoCascade(d, c) ==
  [d EXCEPT !.series = d.series \ SeriesOf(d, c)]

\* DeleteSeries without the filter on the case: every Series row goes
DeleteSeries_Unfiltered(d, c) == [d EXCEPT !.series = {}, !.images = {}]

\* the database after DicomSeries.objects.filter(case_id=c).delete()
DeleteSeries(d, c) ==
  [d EXCEPT !.series = d.series \ SeriesOf(d, c),
            !.images = d.images \ ImagesOf(d, c)]

\* what a failed rmtree leaves of the subtree of case c: it raises at the
\* first entry it cannot remove, here either before it removed any or at
\* the case directory itself
Leftovers(d, c) == {SubTree(d, c), {get_case_storage_path(c)}}

\* TeardownReturn with only the failure of the DELETE statement caught: a
\* failure of rmtree leaves the call as OSError
TeardownReturn_Propagates(fault) ==
  IF fault = "none" THEN "true"
  ELSE IF fault = "db" THEN "false"
  ELSE "OSError"

\* what the call returns: True at the end of the try block (line 289),
\* False from the except clause (lines 290-292)
TeardownReturn(fault) == IF fault = "none" THEN "true" ELSE "false"

\* the record of a finished teardown call
TeardownResult(c, fault) ==
  [op |-> "delete", case |-> c, ret |-> TeardownReturn(fault),
   had |-> SeriesOf(db, c) # {}, fault |-> fault]

\* the teardown of case c, called between two ingestion calls
delete_case_dicom_data(c, fault) ==
  /\ pc = "idle"
  /\ result' = TeardownResult(c, fault)
  /\ IF fault = "db"
     THEN UNCHANGED <<db, tx, disk>>
     ELSE /\ db' = DeleteSeries(db, c)
          /\ tx' = db'
          /\ LET d == disk \cup {get_case_storage_path(c)}
             IN IF fault = "rmtree"
                THEN \E keep \in Leftovers(d, c) :
                       disk' = (d \ SubTree(d, c)) \cup keep
                ELSE disk' = d \ SubTree(d, c)
  \* the record of the last ingestion call is dropped
  /\ case_id' = 1
  /\ total_files' = 0
  /\ handled' = 0
  /\ stats' = ZeroStats
  /\ series_cache' = <<>>
  /\ last' = NoLast
  /\ hist' = NoHist
  /\ UNCHANGED <<pc, needs_rollback, runs, fed>>
  /\ UNCHANGED otherVars

(***************************************************************************)
(* Specification                                                           *)
(***************************************************************************)
Next ==
  \/ \E c \in CaseIds, n \in 0..MaxFiles : StartRun(c, n)
  \/ \E f \in Files, io \in IoOutcomes : ProcessFile(f, io)
  \/ FinishRun
  \/ AbortRun
  \/ \E c \in Cases, fault \in TeardownFaults : delete_case_dicom_data(c, fault)

Spec == Init /\ [][Next]_vars

\* the calls on files that differ in their series attributes
SeedNext ==
  \/ \E c \in CaseIds, n \in 0..MaxFiles : StartRun(c, n)
  \/ \E f \in SeedFiles, io \in IoOutcomes : ProcessFile(f, io)
  \/ FinishRun
  \/ AbortRun
  \/ \E c \in Cases, fault \in TeardownFaults : delete_case_dicom_data(c, fault)

SeedSpec == Init /\ [][SeedNext]_vars

(***************************************************************************)
(* Properties                                                              *)
(***************************************************************************)
\* the last call of process_dicom_files returned its stats record
Returned == pc = "idle" /\ result.op = "ingest" /\ result.ret = "stats"

\* this step is one iteration of the for loop
FileStep == pc = "loop" /\ handled' = handled + 1

\* this step ends a call that had entered the loop
EndStep == pc = "loop" /\ pc' = "idle"

Counted(st) == st.processed_files + st.skipped_files + st.error_files

\* C1: in a call that returns its stats record, processed_files +
\* skipped_files + error_files equals total_files, the number of files
\* passed in; while the loop runs the sum equals the number of files handled
\* so far, so every file bumps exactly one of the three counters.
C1_StatsAddUp ==
  /\ pc = "loop" => Counted(stats) = handled /\ handled <= total_files
  /\ Returned => Counted(stats) = total_files

\* C1 witness: a call returned with each of the three counters bumped
C1_Witness ==
  /\ Returned
  /\ total_files = 3
  /\ stats.processed_files = 1
  /\ stats.skipped_files = 1
  /\ stats.error_files = 1

\* a valid file: it parses, both identifiers are present and not empty,
\* and its metadata can be stored
ValidFile(f) == Storable(f) /\ f.sop # "" /\ f.series # ""

\* the file is one that was ingested before: an Image row with its SOP
\* identifier exists, under the Series with its series UID
Reingested(d, f) ==
  /\ ValidFile(f)
  /\ \E im \in d.images : \E r \in d.series :
       im.sop = f.sop /\ im.series = r.id /\ r.uid = f.series

\* C2: a file ingested before (by a committed run or earlier in the same
\* call) is counted skipped when it is ingested again and adds no Image or
\* Series row; a run made only of files of a committed run returns
\* processed=0, skipped=total, errored=0, series_created=0, images_created=0
\* and leaves the Series and Image rows as they were.
C2_ReingestSkipped ==
  [][/\ FileStep /\ Reingested(tx, last'.file) =>
          /\ last'.exit = "duplicate"
          /\ stats'.skipped_files = stats.skipped_files + 1
          /\ tx' = tx
     /\ EndStep /\ hist.same /\ result'.ret # "aborted" =>
          /\ result'.ret = "stats"
          /\ stats = [ZeroStats EXCEPT !.skipped_files = total_files]
          /\ db'.series = db.series
          /\ db'.images = db.images]_vars

\* the case that owns the Image row with this SOP identifier
Owner(d, sop) ==
  {r.case : r \in {s \in d.series :
                     \E im \in d.images : im.sop = sop /\ im.series = s.id}}

\* C3: a file whose SOP identifier has an Image row under another case is
\* counted skipped and creates no Series row, no Image row and no file for
\* the case of the call; and no two Image rows ever share a
\* sop_instance_uid.
C3_GlobalDedup ==
  /\ [][FileStep /\ Reingested(tx, last'.file)
          /\ case_id \notin Owner(tx, last'.file.sop) =>
            /\ last'.exit = "duplicate"
            /\ stats'.skipped_files = stats.skipped_files + 1
            /\ tx' = tx
            /\ disk' = disk]_vars
  /\ [](\A i, j \in tx.images \cup db.images : i.sop = j.sop => i = j)

\* the Series row an Image row references
SeriesOfImage(d, im) == {r \in d.series : r.id = im.series}

C5_UnparseableSkipped ==
  [][FileStep /\ (last'.file.parse = "raises" \/ last'.file.sop = Absent) =>
       /\ stats'.skipped_files = stats.skipped_files + 1
       /\ stats'.error_files = stats.error_files
       /\ pc' = "loop"]_vars

\* the identifier is missing or empty
Lacks(id) == id = Absent \/ id = ""

\* C6: a parsed file that lacks a non-empty SOP identifier or a non-empty
\* series identifier is counted skipped and creates no row and no file.
C6_MissingIdSkipped ==
  [][FileStep /\ last'.file.parse = "ok"
       /\ (Lacks(last'.file.sop) \/ Lacks(last'.file.series)) =>
         /\ Outcome(last'.exit) = "skipped"
         /\ tx' = tx
         /\ disk' = disk]_vars

\* the file is valid and new: nothing but a failure of this file's own
\* handling keeps it from being stored
ValidNew(f) == ValidFile(f) /\ ~ImageExists(tx, f.sop)

\* C7: a failure while handling one file is counted errored and never aborts
\* the run: a later valid new file is still stored (unless its own write or
\* its own Series row fails), and a run that is not interrupted returns its
\* stats record and commits.
C7_FailuresAreFileScoped ==
  [][/\ FileStep /\ ValidNew(last'.file) =>
          last'.exit \in {"stored", "write_failed", "series_conflict"}
     /\ EndStep /\ result'.ret # "aborted" =>
          result'.ret = "stats" /\ db'.images = tx.images]_vars

\* C8: a call for a case identifier without Case row raises ValueError
\* before the loop is entered and writes nothing: database and disk are
\* left as they were.
C8_UnknownCaseRejected ==
  /\ [](pc = "loop" => case_id \in Cases)
  /\ [][pc = "idle" /\ runs' = runs + 1 /\ case_id' \notin Cases =>
          /\ result'.ret = "ValueError"
          /\ pc' = "idle"
          /\ db' = db
          /\ tx' = tx
          /\ disk' = disk]_vars

\* C8 witness: ValueError was raised on a database that holds rows
C8_Witness ==
  /\ result.op = "ingest"
  /\ result.ret = "ValueError"
  /\ result.case \notin Cases
  /\ db.images # {}

\* C9: the Series rows, Image rows and Case path of a run become visible
\* together when the run returns, or not at all: the committed database
\* does not change while the run is in its loop, a run that ends with an
\* exception leaves it as it was before the run, and the files written to
\* disk stay.
C9_AtomicRun ==
  [][/\ pc' = "loop" => db' = db
     /\ EndStep =>
          IF result'.ret = "stats"
          THEN db' = [tx EXCEPT !.dicom_path[case_id] =
                                   get_case_storage_path(case_id)]
          ELSE db' = db /\ disk \subseteq disk']_vars

\* C9 witness: an interrupted run had stored a file; the file is on disk
\* and no Image row points to it
C9_Witness ==
  /\ pc = "idle"
  /\ result.ret = "aborted"
  /\ stats.processed_files > 0
  /\ \E p \in disk :
       /\ p.file # NoFile
       /\ \A im \in db.images : im.file_path # p

\* an Image row belongs to case c when its Series row does
ImageOfCase(d, im, c) == \E r \in d.series : r.id = im.series /\ r.case = c

\* C10: when delete_case_dicom_data(c) has returned true, no Series row of
\* case c is left, every Image row left belongs to a Series of another
\* case, and nothing of root/case_<c> is on disk.
C10_TeardownRemovesCase ==
  result.op = "delete" /\ result.ret = "true" =>
    /\ SeriesOf(db, result.case) = {}
    /\ \A im \in db.images :
         \E c \in Cases \ {result.case} : ImageOfCase(db, im, c)
    /\ SubTree(disk, result.case) = {}

\* C10 witness: the teardown returned true for a case that had Series rows
C10_Witness ==
  /\ result.op = "delete"
  /\ result.ret = "true"
  /\ result.had

\* this step is a call of delete_case_dicom_data
TeardownStep == pc = "idle" /\ pc' = "idle" /\ runs' = runs

\* C11: delete_case_dicom_data never propagates an exception: whether the
\* DELETE statement or the removal of the directory fails, the call ends
\* with a boolean; it returns false when either step failed and true only
\* when both steps were done, that is when no Series row of the case is left
\* and nothing of its subtree is on disk.
C11_TeardownNeverRaises ==
  [][TeardownStep =>
       /\ result'.op = "delete"
       /\ result'.ret \in {"true", "false"}
       /\ result'.ret = "true" <=> result'.fault = "none"
       /\ result'.ret = "true" =>
            /\ SeriesOf(db', result'.case) = {}
            /\ SubTree(disk', result'.case) = {}]_vars

\* C11 witness: rmtree failed after the rows of the case were deleted; the
\* call returned false and files of the case are still on disk
C11_Witness ==
  /\ result.op = "delete"
  /\ result.fault = "rmtree"
  /\ result.ret = "false"
  /\ result.had
  /\ SeriesOf(db, result.case) = {}
  /\ \E p \in SubTree(disk, result.case) : p.file # NoFile

\* the directory of a Series row under the storage root
SeriesDir(r) == [case |-> r.case, series |-> r.uid, file |-> NoFile]

\* the Image rows of d follow the layout root/case_<c>/<series_uid>/<sop>.dcm
LayoutHolds(d) ==
  /\ \A im \in d.images :
       \E r \in d.series :
         /\ r.id = im.series
         /\ im.file_path =
              [case |-> r.case, series |-> r.uid, file |-> <<im.sop>>]
  /\ \A i, j \in d.images : i.file_path = j.file_path => i = j
  /\ \A r1, r2 \in d.series : SeriesDir(r1) = SeriesDir(r2) => r1 = r2

\* C12: in every state, committed or inside a running transaction, the
\* file_path of every Image row is root/case_<c>/<series_uid>/<sop_uid>.dcm
\* for its own sop_instance_uid, the series_instance_uid of the Series it
\* references and the case that owns that Series; no two Image rows share a
\* file_path and no two Series rows share a directory.
C12_PersistedLayout == LayoutHolds(db) /\ LayoutHolds(tx)

\* C12 witness: Image rows of two cases are committed
C12_Witness ==
  /\ \E i, j \in db.images : i.file_path.case # j.file_path.case
  /\ \E r1, r2 \in db.series : r1.case # r2.case

\* no two Series rows of d carry the same series_instance_uid
SeriesUidsUnique(d) == \A r1, r2 \in d.series : r1.uid = r2.uid => r1 = r2

\* the series UID of the file belongs to a Series row of another case
ForeignSeries(d, f, c) == \E r \in d.series : r.uid = f.series /\ r.case # c

\* this loop iteration added no row and counted its file errored
ErroredWithoutRows ==
  /\ Outcome(last'.exit) = "errored"
  /\ stats'.error_files = stats.error_files + 1
  /\ tx'.series = tx.series
  /\ tx'.images = tx.images

C19_CasePathUpdated ==
  /\ [](Returned =>
          /\ db.dicom_path[case_id] = get_case_storage_path(case_id)
          /\ get_case_storage_path(case_id) \in disk)
  /\ [][db'.dicom_path # db.dicom_path \/ tx'.dicom_path # tx.dicom_path =>
          /\ EndStep
          /\ handled = total_files
          /\ result'.ret = "stats"]_vars

\* C19 witness: a run that was given files and processed none of them
\* returned, and the path of its Case is set
C19_Witness ==
  /\ Returned
  /\ total_files > 0
  /\ stats.processed_files = 0
  /\ db.images = {}
  /\ db.dicom_path[case_id] = get_case_storage_path(case_id)
  /\ get_case_storage_path(case_id) \in disk

\* the Series rows this loop iteration added
NewSeries == tx'.series \ tx.series

\* no step but a teardown removes or changes a committed Series row, and a
\* loop iteration neither removes nor changes a Series row of its
\* transaction and bumps series_created by the number of rows it added
SeriesRowsKept ==
  /\ ~TeardownStep => db.series \subseteq db'.series
  /\ FileStep =>
       /\ tx.series \subseteq tx'.series
       /\ Cardinality(NewSeries) <= 1
       /\ stats'.series_created = stats.series_created + Cardinality(NewSeries)

\* C21 as stated: the attributes of a Series row are those of the first file
\* in input order of the creating run that carries its series UID; no later
\* file and no later run changes the attributes or the case of a Series
\* row, and series_created is bumped only when a row is created.
C21_SeededFromFirstCarrier ==
  [][/\ SeriesRowsKept
     /\ FileStep =>
          \A r \in NewSeries :
            /\ r.case = case_id
            /\ r.attrs = hist'.first[r.uid]]_vars

\* C21 amended: the attributes of a Series row are those of the file whose
\* loop iteration creates it, which is the first file in input order of the
\* creating run that carries its series UID and reaches the series lookup
\* (it carries a SOP identifier that has no Image row); a file with that
\* series UID that is skipped earlier in the run seeds nothing.  No later
\* file and no later run changes the attributes or the case of a Series
\* row, and series_created is bumped only when a row is created.
C21_SeededByCreatingFile ==
  [][/\ SeriesRowsKept
     /\ FileStep =>
          \A r \in NewSeries :
            /\ r.case = case_id
            /\ r.uid = last'.file.series
            /\ r.attrs = last'.file.attrs
            /\ r.uid \notin DOMAIN series_cache
            /\ ~SeriesUidTaken(tx, r.uid)
            /\ last'.file.sop # Absent
            /\ ~ImageExists(tx, last'.file.sop)]_vars

\* C21 witness: the second run stored a file under a Series row of the first
\* run; the file carries other series attributes than the row, and the row
\* is as the first run created it
C21_Witness ==
  /\ Returned
  /\ runs = 2
  /\ last.exit = "stored"
  /\ stats.series_created = 0
  /\ \E r \in db.series :
       /\ r.uid = last.file.series
       /\ r.case = case_id
       /\ r.attrs # last.file.attrs

\* every Image row of d has its file on disk
FilesPresent(d) == \A im \in d.images : im.file_path \in disk

\* C24: in every committed state, and in every state of a running
\* transaction, each Image row has its file on disk at its file_path: the
\* ingestion writes the file before it creates the row, and a teardown
\* removes files only of the case whose rows it has deleted, never a file
\* of an Image row of another case.
C24_RowsHaveFiles ==
  /\ [](FilesPresent(db) /\ FilesPresent(tx))
  /\ [][TeardownStep /\ ~(disk \subseteq disk') =>
          /\ SeriesOf(db', result'.case) = {}
          /\ ImagesOf(db', result'.case) = {}
          /\ disk \ disk' \subseteq SubTree(disk, result'.case)
          /\ \A im \in db'.images : im.file_path \in disk']_vars

\* C24 witness: a teardown removed the rows and the files of one case while
\* an Image row of the other case is committed, with its file on disk
C24_Witness ==
  /\ result.op = "delete"
  /\ result.ret = "true"
  /\ result.had
  /\ \E im \in db.images :
       /\ im.file_path.case # result.case
       /\ im.file_path \in disk

\* C25: a run that returns its stats record and commits added exactly
\* images_created Image rows and series_created Series rows, and
\* images_created equals processed_files; every Series and Image row that
\* was committed before the run is still there, unchanged.
C25_CountersMatchRows ==
  [][EndStep /\ result'.ret = "stats" =>
       /\ db.series \subseteq db'.series
       /\ db.images \subseteq db'.images
       /\ stats.images_created = stats.processed_files
       /\ Cardinality(db'.images \ db.images) = stats.images_created
       /\ Cardinality(db'.series \ db.series) = stats.series_created]_vars

\* C25 witness: the second run returned after it created a Series row whose
\* file could not be written and an Image row under a Series of the first
\* run
C25_Witness ==
  /\ Returned
  /\ runs = 2
  /\ stats.series_created = 1
  /\ stats.images_created = 1
  /\ stats.error_files = 1
  /\ Cardinality(db.series) = 2
  /\ Cardinality(db.images) = 2

\* C26: delete_case_dicom_data(c) leaves the Series rows, the Image rows and
\* the subtree of every other case as they were, and writes no Case row: the
\* dicom_path of every case, the one of c included, is unchanged, whether
\* the call returns true or false.
C26_TeardownFrame ==
  [][TeardownStep =>
       /\ \A c \in Cases \ {result'.case} :
            /\ SeriesOf(db', c) = SeriesOf(db, c)
            /\ ImagesOf(db', c) = ImagesOf(db, c)
            /\ SubTree(disk', c) = SubTree(disk, c)
       /\ db'.dicom_path = db.dicom_path]_vars

\* C26 witness: a teardown that returned false after it deleted the rows of
\* its case; the other case has rows and files, and the path of the torn
\* down case is still set
C26_Witness ==
  /\ result.op = "delete"
  /\ result.ret = "false"
  /\ result.fault = "rmtree"
  /\ result.had
  /\ db.dicom_path[result.case] = get_case_storage_path(result.case)
  /\ \E c \in Cases \ {result.case} :
       /\ ImagesOf(db, c) # {}
       /\ \E p \in SubTree(disk, c) : p.file # NoFile

(***************************************************************************)
(* anonymize_dicom and extract_metadata, and the lines of the loop that    *)
(* call them (236-252), with the content of the datasets.  A dataset is    *)
(* modelled by its top-level elements: anonymize_dicom tests and removes   *)
(* top-level elements only.                                                *)
(***************************************************************************)
\* the deny-list of anonymize_dicom (lines 110-147)
fields_to_anonymize ==
  {"PatientName", "PatientID", "PatientBirthDate", "PatientAddress",
   "PatientTelephoneNumbers", "PatientMotherBirthName", "OtherPatientIDs",
   "OtherPatientNames", "OtherPatientIDsSequence", "PatientBirthName",
   "PatientSize", "PatientWeight", "MilitaryRank", "BranchOfService",
   "MedicalRecordLocator", "MedicalAlerts", "Allergies",
   "AdmittingDiagnosesDescription", "AdmittingDiagnosesCodeSequence",
   "OperatorsName", "ReferringPhysicianName", "ReferringPhysicianAddress",
   "ReferringPhysicianTelephoneNumbers",
   "ReferringPhysicianIdentificationSequence", "ConsultingPhysicianName",
   "ConsultingPhysicianIdentificationSequence", "RequestingPhysician",
   "NameOfPhysiciansReadingStudy", "PhysiciansOfRecord",
   "PhysiciansOfRecordIdentificationSequence", "PerformingPhysicianName",
   "PerformingPhysicianIdentificationSequence", "InstitutionAddress",
   "InstitutionNameCodeSequence", "InstitutionalDepartmentName",
   "InstitutionalDepartmentTypeCodeSequence"}

\* the elements the datasets of the model may carry: the two replaced
\* fields, two of the removed fields and two fields outside the deny-list
DatasetFields == DOMAIN EmptyDataset

\* the values an element may have in a source dataset
SourceValues(f) ==
  IF f = "PatientName" THEN {"", "DOE^JANE"}
  ELSE IF f = "PatientID" THEN {"", "MRN-1"}
  ELSE IF f = "PatientBirthDate" THEN {"20150101"}
  ELSE IF f = "OperatorsName" THEN {"SMITH^A"}
  ELSE IF f = "InstitutionName" THEN {"General Hospital"}
  ELSE {"CT"}

\* the datasets dcmread may return
Datasets ==
  {ds \in [DatasetFields ->
             {Absent, "", "DOE^JANE", "MRN-1", "20150101", "SMITH^A",
              "General Hospital", "CT"}] :
     \A f \in DatasetFields : ds[f] = Absent \/ ds[f] \in SourceValues(f)}

\* anonymize_dicom replacing the two patient fields and removing nothing
anonymize_dicom_ReplaceOnly(ds) ==
  [f \in DatasetFields |->
     IF f \in fields_to_anonymize /\ ds[f] # Absent
     THEN IF f = "PatientName" THEN "Anonymous"
          ELSE IF f = "PatientID" THEN "ID0000"
          ELSE ds[f]
     ELSE ds[f]]

\* anonymize_dicom (lines 100-159): the copy of the dataset after the loop
\* over the deny-list
anonymize_dicom(ds) ==
  [f \in DatasetFields |->
     IF f \in fields_to_anonymize /\ ds[f] # Absent
     THEN IF f = "PatientName" THEN "Anonymous"
          ELSE IF f = "PatientID" THEN "ID0000"
          ELSE Absent
     ELSE ds[f]]

\* dicom_dataset.get(keyword, '')
Get(ds, f) == IF ds[f] = Absent THEN "" ELSE ds[f]

\* extract_metadata (lines 55-98), the keys that carry text
extract_metadata(ds) ==
  [patient_id |-> Get(ds, "PatientID"),
   patient_name |-> Get(ds, "PatientName"),
   modality |-> Get(ds, "Modality"),
   institution_name |-> Get(ds, "InstitutionName")]

\* MetadataInput with the dataset as it was read
MetadataInput_Source == source

\* the argument of extract_metadata at line 243
MetadataInput == anonymized

AnonInit ==
  /\ IngestIdle
  /\ ReportIdle
  /\ RaceIdle
  /\ UploadIdle
  /\ source \in Datasets
  /\ anonymized = EmptyDataset
  /\ stored = EmptyDataset
  /\ metadata = NoMetadata
  /\ row_metadata = NoMetadata
  /\ apc = "parsed"

\* line 237
Anonymize ==
  /\ apc = "parsed"
  /\ anonymized' = anonymize_dicom(source)
  /\ apc' = "anonymized"
  /\ UNCHANGED <<source, stored, metadata, row_metadata>>
  /\ UNCHANGED <<vars, reportVars, raceVars, uploadVars>>

\* line 240: save_as writes the anonymized dataset, or raises
SaveAs(io) ==
  /\ apc = "anonymized"
  /\ IF io = "ok"
     THEN stored' = anonymized /\ apc' = "written"
     ELSE stored' = stored /\ apc' = "errored"
  /\ UNCHANGED <<source, anonymized, metadata, row_metadata>>
  /\ UNCHANGED <<vars, reportVars, raceVars, uploadVars>>

\* line 243
ExtractMetadata ==
  /\ apc = "written"
  /\ metadata' = extract_metadata(MetadataInput)
  /\ apc' = "extracted"
  /\ UNCHANGED <<source, anonymized, stored, row_metadata>>
  /\ UNCHANGED <<vars, reportVars, raceVars, uploadVars>>

\* lines 246-252: the Image row takes the mapping as its metadata
CreateImage ==
  /\ apc = "extracted"
  /\ row_metadata' = metadata
  /\ apc' = "created"
  /\ UNCHANGED <<source, anonymized, stored, metadata>>
  /\ UNCHANGED <<vars, reportVars, raceVars, uploadVars>>

AnonNext ==
  \/ Anonymize
  \/ \E io \in IoOutcomes : SaveAs(io)
  \/ ExtractMetadata
  \/ CreateImage

AnonSpec == AnonInit /\ [][AnonNext]_anonVars

\* the file of the image was written
FileWritten == apc \in {"written", "extracted", "created"}

\* the values of the patient name and patient identifier of the source
SourceSecrets == {source["PatientName"], source["PatientID"]} \ {Absent, ""}

C20_MetadataAnonymized ==
  apc = "created" =>
    /\ row_metadata = extract_metadata(anonymized)
    /\ row_metadata.patient_id =
         (IF source["PatientID"] # Absent THEN "ID0000" ELSE "")
    /\ row_metadata.patient_name =
         (IF source["PatientName"] # Absent THEN "Anonymous" ELSE "")
    /\ row_metadata.patient_id \notin SourceSecrets
    /\ row_metadata.patient_name \notin SourceSecrets
    /\ row_metadata.modality \notin SourceSecrets
    /\ row_metadata.institution_name \notin SourceSecrets

\* C20 witness: an Image row was created from a source with a patient
\* identifier and without a patient name
C20_Witness ==
  /\ apc = "created"
  /\ source["PatientID"] = "MRN-1"
  /\ source["PatientName"] = Absent
  /\ row_metadata.patient_id = "ID0000"
  /\ row_metadata.patient_name = ""
  /\ row_metadata.institution_name = "General Hospital"

(***************************************************************************)
(* Reports and feedback: the Report and Feedback models (api/models.py),   *)
(* ReportSerializer (api/serializers.py), ReportViewSet and                *)
(* FeedbackViewSet.flag (api/views.py).  Each request is one action.       *)
(***************************************************************************)
\* the last value timezone.now() takes in a behaviour
MaxClock == 4

\* Report.STATUS_CHOICES
StatusChoices == {"draft", "submitted", "feedback_ready"}

\* the text the submit action stores as feedback
FeedbackText == "# Feedback on Your Report"

\* where the try block of the submit action may raise: nowhere, while it
\* writes the Feedback row, or in the last report.save()
SubmitFaults == {"none", "feedback", "save"}

\* the Feedback rows of a report (the reverse side of the OneToOneField)
FeedbackOf(fbs, r) == {f \in fbs : f.report = r}

\* primary key of a new Feedback row
NewFeedbackId(fbs) ==
  CHOOSE n \in 1..(Cardinality(fbs) + 1) : \A f \in fbs : f.id # n

\* what a request found as the feedback of the report
Had(fbs, r) ==
  IF FeedbackOf(fbs, r) = {} THEN "none"
  ELSE IF \E f \in FeedbackOf(fbs, r) : f.flagged THEN "flagged"
  ELSE "unflagged"

\* WriteFeedback inserting a row whether or not the report has one
WriteFeedback_AlwaysInsert(fbs, r) ==
  fbs \cup {[id |-> NewFeedbackId(fbs), report |-> r,
             content |-> FeedbackText, flagged |-> FALSE]}

\* lines 151-161 of the submit action: Feedback.objects.get_or_create(
\* report=report, defaults=...), and the overwrite of the row it found
WriteFeedback(fbs, r) ==
  IF FeedbackOf(fbs, r) = {}
  THEN fbs \cup {[id |-> NewFeedbackId(fbs), report |-> r,
                  content |-> FeedbackText, flagged |-> FALSE]}
  ELSE {IF f.report = r
        THEN [f EXCEPT !.content = FeedbackText, !.flagged = FALSE]
        ELSE f : f \in fbs}

\* the report the next POST /reports/ creates
NextReport == CHOOSE r \in ReportIds :
                /\ reports[r] = NoReport
                /\ \A q \in ReportIds : q < r => reports[q] # NoReport

ReportInit ==
  /\ IngestIdle
  /\ AnonIdle
  /\ RaceIdle
  /\ UploadIdle
  /\ ReportIdle

\* POST /reports/: ReportSerializer.create; status is a writable field of
\* the serializer (a valid choice, 'draft' when the request omits it),
\* submission_date is read-only
create(st) ==
  /\ \E r \in ReportIds : reports[r] = NoReport
  /\ reports' = [reports EXCEPT ![NextReport] =
                   [status |-> st, submission_date |-> 0]]
  /\ request' = [op |-> "create", report |-> NextReport, response |-> 201,
                 had |-> "none"]
  /\ UNCHANGED <<feedbacks, clock>>
  /\ UNCHANGED <<vars, anonVars, raceVars, uploadVars>>

\* PUT or PATCH /reports/<r>/: the serializer writes the status of the
\* request (the current one when a PATCH omits it)
update(r, st) ==
  /\ reports[r] # NoReport
  /\ reports' = [reports EXCEPT ![r].status = st]
  /\ request' = [op |-> "update", report |-> r, response |-> 200,
                 had |-> Had(feedbacks, r)]
  /\ UNCHANGED <<feedbacks, clock>>
  /\ UNCHANGED <<vars, anonVars, raceVars, uploadVars>>

\* POST /reports/<r>/submit/ (views.py lines 118-180)
submit(r, fault) ==
  /\ reports[r] # NoReport
  /\ reports[r].status = "draft" => clock < MaxClock
  /\ IF reports[r].status # "draft"
     THEN /\ request' = [op |-> "submit", report |-> r, response |-> 400,
                         had |-> Had(feedbacks, r)]
          /\ UNCHANGED <<reports, feedbacks, clock>>
     ELSE /\ clock' = clock + 1
          /\ feedbacks' = IF fault = "feedback" THEN feedbacks
                          ELSE WriteFeedback(feedbacks, r)
          /\ reports' = [reports EXCEPT ![r] =
                           [status |-> IF fault = "none"
                                       THEN "feedback_ready"
                                       ELSE "submitted",
                            submission_date |-> clock]]
          /\ request' = [op |-> "submit", report |-> r,
                         response |-> IF fault = "none" THEN 200 ELSE 500,
                         had |-> Had(feedbacks, r)]
  /\ UNCHANGED <<vars, anonVars, raceVars, uploadVars>>

\* Report.submit_for_feedback (models.py lines 109-113)
submit_for_feedback(r) ==
  /\ reports[r] # NoReport
  /\ clock < MaxClock
  /\ clock' = clock + 1
  /\ reports' = [reports EXCEPT ![r] =
                   [status |-> "submitted", submission_date |-> clock]]
  /\ request' = [op |-> "submit_for_feedback", report |-> r,
                 response |-> 0, had |-> Had(feedbacks, r)]
  /\ UNCHANGED feedbacks
  /\ UNCHANGED <<vars, anonVars, raceVars, uploadVars>>

\* POST /feedback/<id>/flag/ (views.py lines 272-280)
flag(r) ==
  /\ FeedbackOf(feedbacks, r) # {}
  /\ feedbacks' = {IF f.report = r THEN [f EXCEPT !.flagged = TRUE] ELSE f :
                     f \in feedbacks}
  /\ request' = [op |-> "flag", report |-> r, response |-> 200,
                 had |-> Had(feedbacks, r)]
  /\ UNCHANGED <<reports, clock>>
  /\ UNCHANGED <<vars, anonVars, raceVars, uploadVars>>

ReportNext ==
  \/ \E st \in StatusChoices : create(st)
  \/ \E r \in ReportIds, st \in StatusChoices : update(r, st)
  \/ \E r \in ReportIds, fault \in SubmitFaults : submit(r, fault)
  \/ \E r \in ReportIds : submit_for_feedback(r)
  \/ \E r \in ReportIds : flag(r)

ReportSpec == ReportInit /\ [][ReportNext]_reportVars

\* the place of a status in the lifecycle draft, submitted, feedback_ready
Rank(st) ==
  IF st = "draft" THEN 0 ELSE IF st = "submitted" THEN 1 ELSE 2

\* this step gave report r the submission date of the request: the report
\* was submitted by it
Stamped(r) == reports'[r].submission_date = clock /\ clock' = clock + 1

\* C14: a Report is created as draft, and over creation, update through the
\* report API, the submit action and submit_for_feedback its status only
\* moves forward along draft, submitted, feedback_ready: no step moves it
\* back, and a step makes it feedback_ready only from submitted or by
\* submitting it.
C14_StatusLifecycle ==
  [][\A r \in ReportIds :
       IF reports[r] = NoReport
       THEN reports'[r] = NoReport \/ reports'[r].status = "draft"
       ELSE /\ reports'[r] # NoReport
            /\ Rank(reports'[r].status) >= Rank(reports[r].status)
            /\ reports'[r].status = "feedback_ready"
                 /\ reports[r].status = "draft" => Stamped(r)]_reportVars

\* C15: submission_date is unset when a Report is created and as long as
\* it was never submitted; it is set by the step that takes the Report from
\* draft to submitted, and by no other step; once set, no step changes it.
C15_SubmissionDateOnce ==
  [][\A r \in ReportIds :
       IF reports[r] = NoReport
       THEN reports'[r] = NoReport \/ reports'[r].submission_date = 0
       ELSE /\ reports[r].submission_date # 0 =>
                 reports'[r].submission_date = reports[r].submission_date
            /\ reports[r].submission_date = 0
                 /\ reports'[r].submission_date # 0 =>
                   /\ reports[r].status = "draft"
                   /\ reports'[r].status # "draft"
            /\ reports[r].status = "draft" /\ reports'[r].status # "draft" =>
                 reports'[r].submission_date # 0]_reportVars

\* this step is a submit action that answered 200
SubmitOk(r) ==
  /\ request'.op = "submit"
  /\ request'.report = r
  /\ request'.response = 200
  /\ clock' = clock + 1

\* C16: every Report has at most one Feedback row in every state; a submit
\* action that succeeds leaves the Report feedback_ready with exactly one
\* Feedback row, unflagged and with the generated text: a new row when the
\* Report had none, the same row overwritten when it had one; the Feedback
\* rows of other Reports are left as they were.
C16_OneFeedbackPerReport ==
  /\ [](\A r \in ReportIds : Cardinality(FeedbackOf(feedbacks, r)) <= 1)
  /\ [][\A r \in ReportIds : SubmitOk(r) =>
          /\ reports'[r].status = "feedback_ready"
          /\ Cardinality(FeedbackOf(feedbacks', r)) = 1
          /\ \A f \in FeedbackOf(feedbacks', r) :
               /\ f.flagged = FALSE
               /\ f.content = FeedbackText
               /\ \A g \in FeedbackOf(feedbacks, r) : g.id = f.id
          /\ feedbacks' \ FeedbackOf(feedbacks', r)
               = feedbacks \ FeedbackOf(feedbacks, r)]_reportVars

\* C16 witness: a submit action succeeded on a Report that had a flagged
\* Feedback; the Report is feedback_ready and its only Feedback is unflagged
C16_Witness ==
  /\ request.op = "submit"
  /\ request.response = 200
  /\ request.had = "flagged"
  /\ reports[request.report].status = "feedback_ready"
  /\ Had(feedbacks, request.report) = "unflagged"
  /\ Cardinality(FeedbackOf(feedbacks, request.report)) = 1

\* C27: in every state reached by creating Reports, updating them through
\* the report API, submitting them and flagging feedback, a Report whose
\* status is feedback_ready has a Feedback row.
C27_FeedbackReadyHasFeedback ==
  \A r \in ReportIds :
    reports[r].status = "feedback_ready" => FeedbackOf(feedbacks, r) # {}

(***************************************************************************)
(* Two concurrent calls of process_dicom_files on the same case, whose     *)
(* files carry one series UID and pairwise distinct SOP identifiers.  The  *)
(* database is the one of backend/settings.py, SQLite: a transaction holds *)
(* a shared lock from its first read (the Case lookup) to its end, the     *)
(* first write of a transaction takes the one write lock of the database   *)
(* and keeps it to the end, a write while another transaction holds the    *)
(* write lock fails with OperationalError (database is locked), and a      *)
(* commit needs every other transaction to have released its shared lock.  *)
(***************************************************************************)
\* the largest number of files of one concurrent call
MaxRaceFiles == 2

\* the case both calls ingest into and the series UID of all their files
RaceCase == 1
RaceUid == "1.2.S"

\* the other call
Other(p) == CHOOSE q \in Runs : q # p

\* the SOP identifiers of the files of call p, n of them
RaceSops(p, n) == {<<p, k>> : k \in 1..n}

\* CanWrite without the write lock: every transaction may write at any time
CanWrite_NoLock(p) == TRUE

\* the transaction of call p may write: no other transaction holds the
\* write lock
CanWrite(p) == rlock \in {0, p}

\* the rows the statements of call p see: the committed rows and its own
View(p) ==
  [series |-> rdb.series \cup rtx[p].series,
   images |-> rdb.images \cup rtx[p].images]

NoRows == [series |-> {}, images |-> {}]

RaceInit ==
  /\ IngestIdle
  /\ AnonIdle
  /\ ReportIdle
  /\ RaceIdle
  /\ UploadIdle

\* the call begins: transaction.atomic opens the transaction and the Case
\* lookup (lines 174-177) reads; it waits while another transaction is
\* committing
RaceStart(p, n) ==
  /\ rpc[p] = "off"
  /\ rpc[Other(p)] # "committing"
  /\ rpc' = [rpc EXCEPT ![p] = "loop"]
  /\ rleft' = [rleft EXCEPT ![p] = n]
  /\ UNCHANGED <<rdb, rtx, rcache, rstats, rlock, rresult>>
  /\ UNCHANGED <<vars, anonVars, reportVars, uploadVars>>

\* the rows with the series UID that the get of get_or_create finds
RaceFound(p) == {r \in View(p).series : r.case = RaceCase /\ r.uid = RaceUid}

\* one iteration of the loop (lines 192-260) for the next file of call p
RaceFile(p) ==
  /\ rpc[p] = "loop"
  /\ rleft[p] > 0
  /\ rleft' = [rleft EXCEPT ![p] = rleft[p] - 1]
  /\ LET sop == <<p, rleft[p]>>
         insert == rcache[p] = 0 /\ RaceFound(p) = {}
         pk == IF rcache[p] # 0 THEN rcache[p]
               ELSE IF RaceFound(p) # {} THEN (CHOOSE r \in RaceFound(p) : TRUE).id
               ELSE NewPk(View(p).series)
     IN IF ~CanWrite(p)
        \* the INSERT of the Series row, or of the Image row under a Series
        \* row that was found, raises; the file is counted errored
        THEN /\ rstats' = [rstats EXCEPT ![p].errored = @ \cup {sop}]
             /\ rcache' = [rcache EXCEPT ![p] = IF insert THEN 0 ELSE pk]
             /\ UNCHANGED <<rtx, rlock>>
        ELSE /\ rtx' = [rtx EXCEPT
                          ![p].series = @ \cup
                            (IF insert
                             THEN {[id |-> pk, case |-> RaceCase,
                                    uid |-> RaceUid, by |-> p]}
                             ELSE {}),
                          ![p].images = @ \cup {[sop |-> sop, series |-> pk]}]
             /\ rcache' = [rcache EXCEPT ![p] = pk]
             /\ rlock' = p
             /\ rstats' = [rstats EXCEPT ![p].processed = @ \cup {sop}]
  /\ UNCHANGED <<rdb, rpc, rresult>>
  /\ UNCHANGED <<vars, anonVars, reportVars, uploadVars>>

\* lines 262-265 after the last file: case.save writes; when another
\* transaction holds the write lock it raises, the exception leaves the
\* call and the transaction is rolled back
RaceSave(p) ==
  /\ rpc[p] = "loop"
  /\ rleft[p] = 0
  /\ IF CanWrite(p)
     THEN /\ rlock' = p
          /\ rpc' = [rpc EXCEPT ![p] = "committing"]
          /\ UNCHANGED <<rtx, rresult>>
     ELSE /\ rtx' = [rtx EXCEPT ![p] = NoRows]
          /\ rpc' = [rpc EXCEPT ![p] = "done"]
          /\ rresult' = [rresult EXCEPT ![p] = "error"]
          /\ UNCHANGED rlock
  /\ UNCHANGED <<rdb, rleft, rcache, rstats>>
  /\ UNCHANGED <<vars, anonVars, reportVars, uploadVars>>

\* the exit of the atomic block: the commit goes through once no other
\* transaction is open, and the call returns its stats
RaceCommit(p) ==
  /\ rpc[p] = "committing"
  /\ rpc[Other(p)] # "loop"
  /\ rdb' = View(p)
  /\ rtx' = [rtx EXCEPT ![p] = NoRows]
  /\ rlock' = 0
  /\ rpc' = [rpc EXCEPT ![p] = "done"]
  /\ rresult' = [rresult EXCEPT ![p] = "stats"]
  /\ UNCHANGED <<rleft, rcache, rstats>>
  /\ UNCHANGED <<vars, anonVars, reportVars, uploadVars>>

\* the commit times out while the other transaction stays open: the
\* transaction is rolled back and the call raises
RaceCommitTimeout(p) ==
  /\ rpc[p] = "committing"
  /\ rpc[Other(p)] = "loop"
  /\ rtx' = [rtx EXCEPT ![p] = NoRows]
  /\ rlock' = 0
  /\ rpc' = [rpc EXCEPT ![p] = "done"]
  /\ rresult' = [rresult EXCEPT ![p] = "error"]
  /\ UNCHANGED <<rdb, rleft, rcache, rstats>>
  /\ UNCHANGED <<vars, anonVars, reportVars, uploadVars>>

RaceNext ==
  \/ \E p \in Runs, n \in 1..MaxRaceFiles : RaceStart(p, n)
  \/ \E p \in Runs : RaceFile(p)
  \/ \E p \in Runs : RaceSave(p)
  \/ \E p \in Runs : RaceCommit(p)
  \/ \E p \in Runs : RaceCommitTimeout(p)

RaceSpec == RaceInit /\ [][RaceNext]_raceVars

\* the committed Series rows with the series UID of the two calls
RaceSeries == {r \in rdb.series : r.uid = RaceUid}

\* the committed Image rows with this SOP identifier
RaceImages(sop) == {im \in rdb.images : im.sop = sop}

MaxUploads == 2

\* names of the members of an archive: stem and extension
MemberNames == {<<"IM1", ".DCM">>, <<"notes", ".txt">>, <<"IM2", "">>}

\* str.lower, on the extensions
lower(ext) == IF ext = ".DCM" THEN ".dcm" ELSE ext

\* the filter of the os.walk loop:
\* file.lower().endswith(('.dcm', '.dicom')) or '.' not in file
IsDicomName(stem, ext) == lower(ext) \in {".dcm", ".dicom"} \/ ext = ""

\* the uploaded file: a zip archive, a file that is no zip archive
\* (zipfile.ZipFile raises BadZipFile), or a zip archive with a damaged
\* member (extractall raises after it extracted some members)
Archives ==
  [kind : {"zip"}, members : SUBSET MemberNames] \cup
  [kind : {"damaged"}, members : (SUBSET MemberNames) \ {{}}] \cup
  {[kind |-> "not_a_zip", members |-> {}]}

\* 'dicom_zip' is not in form.files
NoArchive == [kind |-> "none", members |-> {}]

\* the Case, Series and Image rows and the stored files
Persistent ==
  [case_table |-> case_table, ingested |-> ingested,
   stored_files |-> stored_files]

\* cleanup with the directory removed only when the block ends without an
\* exception (mkdtemp, and rmtree as the last statement of the block)
cleanup_OnSuccess(exit) == IF exit = "success" THEN NoTemp ELSE temp_dir

\* TemporaryDirectory.__exit__: the directory is removed however the with
\* block is left
cleanup(exit) == NoTemp

\* the with block is left, and the message the handler issues after it
Leave(exit, level) ==
  /\ temp_dir' = cleanup(exit)
  /\ upc' = "idle"
  /\ upload' = [upload EXCEPT !.exit = exit, !.messages = <<level>>]

\* lines 82-88 and 143-149: the temporary directory is created and the
\* uploaded file is written to dicom.zip
StartUpload(h, c, a) ==
  /\ temp_dir' = [exists |-> TRUE, entries |-> {<<"", "dicom", ".zip">>}]
  /\ upc' = "unpack"
  /\ upload' = [NoUpload EXCEPT !.handler = h, !.case = c, !.archive = a,
                                !.before = Persistent]

UploadInit ==
  /\ IngestIdle
  /\ AnonIdle
  /\ ReportIdle
  /\ RaceIdle
  /\ UploadIdle

\* CaseAdmin.save_model: the Case row is saved (line 75), then the archive
\* of the form, if there is one, is handled
save_model(c, a) ==
  /\ upc = "idle"
  /\ uploads < MaxUploads
  /\ uploads' = uploads + 1
  /\ case_table' = [case_table EXCEPT ![c] = @ + 1]
  /\ IF a = NoArchive
     THEN /\ upload' = [NoUpload EXCEPT !.handler = "save_model", !.case = c,
                                        !.exit = "saved",
                                        !.before = Persistent]
          /\ UNCHANGED <<temp_dir, upc>>
     ELSE StartUpload("save_model", c, a)
  /\ UNCHANGED <<ingested, stored_files>>
  /\ UNCHANGED <<vars, anonVars, reportVars, raceVars>>

\* CaseAdmin.upload_dicom_view, a POST with a valid form: 404 when the case
\* has no row (line 129)
upload_dicom_view(c, a) ==
  /\ upc = "idle"
  /\ uploads < MaxUploads
  /\ uploads' = uploads + 1
  /\ IF case_table[c] = 0
     THEN /\ upload' = [NoUpload EXCEPT !.handler = "upload_dicom_view",
                                        !.case = c, !.archive = a,
                                        !.exit = "Http404",
                                        !.before = Persistent]
          /\ UNCHANGED <<temp_dir, upc>>
     ELSE StartUpload("upload_dicom_view", c, a)
  /\ UNCHANGED <<case_table, ingested, stored_files>>
  /\ UNCHANGED <<vars, anonVars, reportVars, raceVars>>

\* lines 90-94 and 151-155: the archive is unpacked into extracted/, or
\* zipfile raises and the except clause reports the error
Extract ==
  /\ upc = "unpack"
  /\ IF upload.archive.kind = "zip"
     THEN /\ temp_dir' =
               [temp_dir EXCEPT !.entries =
                  @ \cup {<<"extracted", "", "">>}
                    \cup {<<"extracted", m[1], m[2]>> :
                            m \in upload.archive.members}]
          /\ upc' = "discover"
          /\ UNCHANGED upload
     ELSE Leave("bad_archive", "ERROR")
  /\ UNCHANGED <<case_table, ingested, stored_files, uploads>>
  /\ UNCHANGED <<vars, anonVars, reportVars, raceVars>>

\* the files of extracted/ that the os.walk loop keeps
Discovered ==
  {<<e[2], e[3]>> : e \in {d \in temp_dir.entries :
                             /\ d[1] = "extracted"
                             /\ d[2] # ""
                             /\ IsDicomName(d[2], d[3])}}

\* where the os.walk loop may raise: nowhere, or when it reads a file
DiscoverFaults == {"none", "raises"}

\* lines 97-112 and 158-173: the candidate files are read into memory and
\* process_dicom_files is called with them
Discover(fault) ==
  /\ upc = "discover"
  /\ IF fault = "raises"
     THEN Leave("discovery_raised", "ERROR")
     ELSE /\ upload' = [upload EXCEPT !.dicom_files = Discovered,
                                      !.invoked = TRUE]
          /\ upc' = "ingesting"
          /\ UNCHANGED temp_dir
  /\ UNCHANGED <<case_table, ingested, stored_files, uploads>>
  /\ UNCHANGED <<vars, anonVars, reportVars, raceVars>>

\* how the call of process_dicom_files ends
IngestOutcomes == {"stats", "raises"}

\* the call of process_dicom_files (line 112, line 173) ends: it wrote the
\* files of done, and committed their Image rows unless it raised; the with
\* block is left and the handler reports
process_dicom_files(outcome, done) ==
  /\ upc = "ingesting"
  /\ done \subseteq upload.dicom_files
  /\ stored_files' = [stored_files EXCEPT ![upload.case] = @ \cup done]
  /\ IF outcome = "stats"
     THEN /\ ingested' = [ingested EXCEPT ![upload.case] = @ \cup done]
          /\ Leave("success", "INFO")
     ELSE /\ UNCHANGED ingested
          /\ Leave("ingest_raised", "ERROR")
  /\ UNCHANGED <<case_table, uploads>>
  /\ UNCHANGED <<vars, anonVars, reportVars, raceVars>>

UploadNext ==
  \/ \E c \in CaseIds, a \in Archives \cup {NoArchive} : save_model(c, a)
  \/ \E c \in CaseIds, a \in Archives : upload_dicom_view(c, a)
  \/ Extract
  \/ \E fault \in DiscoverFaults : Discover(fault)
  \/ \E outcome \in IngestOutcomes, done \in SUBSET MemberNames :
       process_dicom_files(outcome, done)

UploadSpec == UploadInit /\ [][UploadNext]_uploadVars

\* the last request ended because its archive could not be unpacked
BadArchive == upc = "idle" /\ upload.exit = "bad_archive"

\* C22: a request whose archive cannot be unpacked never calls
\* process_dicom_files and changes nothing: the Case rows, the Series and
\* Image rows and the stored files are as they were before the request,
\* and the caller gets one error message.
C22_BadArchiveChangesNothing ==
  BadArchive =>
    /\ ~upload.invoked
    /\ case_table = upload.before.case_table
    /\ ingested = upload.before.ingested
    /\ stored_files = upload.before.stored_files
    /\ upload.messages = <<"ERROR">>

\* C23: the temporary directory of a request is gone whenever no request
\* is running, however the request ended (success, archive not unpacked,
\* discovery raised, ingestion raised), and it exists, with the files
\* handed to process_dicom_files in it, from the moment it is created to
\* the end of the call of process_dicom_files.
C23_TempDirScoped ==
  /\ upc = "idle" => temp_dir = NoTemp
  /\ upc # "idle" => temp_dir.exists
  /\ upc = "ingesting" =>
       \A m \in upload.dicom_files :
         <<"extracted", m[1], m[2]>> \in temp_dir.entries

\* C23 witness: process_dicom_files was called with two files and raised;
\* the request is over and the directory is gone
C23_Witness ==
  /\ upc = "idle"
  /\ upload.exit = "ingest_raised"
  /\ upload.invoked
  /\ Cardinality(upload.dicom_files) = 2
  /\ upload.messages = <<"ERROR">>
  /\ temp_dir = NoTemp

====
